---- MODULE Spec2Model ----
(***************************************************************************)
(* A model of the PAGNNs repository:                                       *)
(*   - experiments/graph_ffnn.py : GraphFFNN, a layered feed-forward net   *)
(*     embedded into one N x N neuron graph and evaluated by repeated      *)
(*     propagation steps (_step), next to the layered reference pass;      *)
(*   - examples/gym/utils.py : the genetic search loop (run,               *)
(*     get_next_population).                                               *)
(* Arrays are 1-based here: Python index i is i+1, Python index -i of an   *)
(* axis of length n is n+1-i.  Floating point numbers are modelled by      *)
(* integers, the seeded random generators by one counter-based generator.   *)
(***************************************************************************)
EXTENDS Integers, Sequences, FiniteSets, TLC

\* ------------------------------------------------------------------ bounds
\* Largest total neuron count N of a network.
MaxNeurons == 5
\* Seeds of the random generator: 0..MaxSeed.
MaxSeed == 3
\* Largest number of rows of an input X.
MaxBatch == 2
\* Calls of graph_step allowed beyond the len(hidden_units)+1 required ones.
MaxExtra == 1

\* Largest population_size of the genetic search.
MaxPopulation == 21
\* Largest number of generations of the genetic search.
MaxGenerations == 3
\* Episode scores are 0..MaxScore.
MaxScore == 2
\* Number of weights of a genome.
WeightNumel == 2

\* Entries of an input X are 0..InputHigh-1.
InputHigh == 3

\* ------------------------------------------------------------ array helpers
RECURSIVE Sum(_)
Sum(s) == IF Len(s) = 0 THEN 0 ELSE s[1] + Sum(Tail(s))

RECURSIVE SumTo(_, _)
\* f[1] + ... + f[n]
SumTo(f, n) == IF n = 0 THEN 0 ELSE f[n] + SumTo(f, n - 1)

Rows(M) == Len(M)
Cols(M) == Len(M[1])

\* The array with the elements of f, every element computed once.
Vec(f) == f \o <<>>

\* np.zeros((r, c))
Zeros(r, c) == Vec([i \in 1..r |-> Vec([j \in 1..c |-> 0])])

\* M.T
Transpose(M) == Vec([j \in 1..Cols(M) |-> Vec([i \in 1..Rows(M) |-> M[i][j]])])

\* np.dot(A, Z) of a p x q and a q x r matrix
Dot(A, Z) ==
    Vec([i \in 1..Rows(A) |-> Vec([n \in 1..Cols(Z) |->
        SumTo([t \in 1..Cols(A) |-> A[i][t] * Z[t][n]], Cols(A))])])

\* M * v with v broadcast along the rows: (M * v)[a][b] = M[a][b] * v[b]
MulRow(M, v) ==
    Vec([a \in 1..Rows(M) |-> Vec([b \in 1..Cols(M) |-> M[a][b] * v[b]])])

\* A + C, elementwise
AddMat(A, C) ==
    Vec([a \in 1..Rows(A) |-> Vec([b \in 1..Cols(A) |-> A[a][b] + C[a][b]])])

\* np.pad(v, (0, k))
Pad(v, k) == v \o Vec([i \in 1..k |-> 0])

\* ------------------------------------------------------- random generator
\* The generator is counter based: its state is a position in the stream of
\* the seed, and a draw scrambles the position it is made at.
RngSeed(seed) == seed * 4096

\* The generator state after n draws from state s.
RngAt(s, n) == s + n

\* The number drawn at state s.
RngValue(s) ==
    LET x == (s * 40503 + 12345) % 32749
        y == (x * x + s) % 32719
    IN (y * 75 + 74) % 65537

\* floor(sqrt(n)) and ceil(sqrt(n))
FloorSqrt(n) == CHOOSE r \in 0..n : r * r <= n /\ (r + 1) * (r + 1) > n
CeilSqrt(n) == CHOOSE r \in 0..n : r * r >= n /\ (r = 0 \/ (r - 1) * (r - 1) < n)

\* The n-th draw (n >= 1) of np.random.uniform(low=-m, high=m) with
\* m = sqrt(p): an integer point of the half-open interval [-m, m).
Uniform(s, n, p) ==
    LET lo == 0 - FloorSqrt(p)
        hi == CeilSqrt(p)
    IN lo + (RngValue(RngAt(s, n)) % (hi - lo))

\* The n-th draw of np.random.randint(high): a value of 0..high-1.
RandInt(s, n, high) == RngValue(RngAt(s, n)) % high

\* ------------------------------------------------------------ construction
\* list(hidden_units) + [output_dim], preceded by input_dim
LayerSizes(inp, hid, out) == <<inp>> \o hid \o <<out>>

\* Number of generator draws made by the loop of __init__ before layer k.
DrawsBefore(sizes, bias, k) ==
    SumTo([j \in 1..(k - 1) |->
              sizes[j] * sizes[j + 1] + (IF bias THEN sizes[j + 1] ELSE 0)], k - 1)

\* self.W : one prev_units x units matrix per layer transition
InitW(sizes, bias, seed) ==
    Vec([k \in 1..(Len(sizes) - 1) |->
        Vec([i \in 1..sizes[k] |-> Vec([j \in 1..sizes[k + 1] |->
            Uniform(seed, DrawsBefore(sizes, bias, k) + (i - 1) * sizes[k + 1] + j,
                    sizes[k] * sizes[k + 1])])])])

\* self.B : one vector of length units per layer transition
InitB(sizes, bias, seed) ==
    Vec([k \in 1..(Len(sizes) - 1) |->
        Vec([j \in 1..sizes[k + 1] |->
            IF bias
            THEN Uniform(seed, DrawsBefore(sizes, bias, k) + sizes[k] * sizes[k + 1] + j,
                         sizes[k] * sizes[k + 1])
            ELSE 0])])

\* self.graph_weights[neuron_idx:neuron_idx+N, neuron_idx+N:neuron_idx+D+N] = W
PlaceBlock(G, neuron_idx, Wk) ==
    LET N == Rows(Wk)
        D == Cols(Wk)
    IN Vec([r \in 1..Rows(G) |-> Vec([c \in 1..Cols(G) |->
           IF /\ r > neuron_idx /\ r <= neuron_idx + N
              /\ c > neuron_idx + N /\ c <= neuron_idx + D + N
           THEN Wk[r - neuron_idx][c - neuron_idx - N]
           ELSE G[r][c]])])

RECURSIVE PlaceBlocksByCols(_, _, _, _)
\* The loop with the offset advanced by the block's width D instead of its height N.
PlaceBlocksByCols(G, neuron_idx, Ws, k) ==
    IF k > Len(Ws) THEN G
    ELSE PlaceBlocksByCols(PlaceBlock(G, neuron_idx, Ws[k]), neuron_idx + Cols(Ws[k]),
                           Ws, k + 1)

RECURSIVE PlaceBlocks(_, _, _, _)
\* the loop over zip(self.W, self.B), from layer k on
PlaceBlocks(G, neuron_idx, Ws, k) ==
    IF k > Len(Ws) THEN G
    ELSE PlaceBlocks(PlaceBlock(G, neuron_idx, Ws[k]), neuron_idx + Rows(Ws[k]), Ws, k + 1)

RECURSIVE SelfLoopsAll(_, _, _)
\* Self-loops set on every neuron instead of the last output_dim ones.
SelfLoopsAll(G, i, out) ==
    IF i >= Rows(G) THEN G
    ELSE LET n == Rows(G) - i
         IN SelfLoopsAll([G EXCEPT ![n][n] = 1], i + 1, out)

RECURSIVE SelfLoops(_, _, _)
\* for i in range(output_dim): self.graph_weights[-(i+1), -(i+1)] = 1
SelfLoops(G, i, out) ==
    IF i >= out THEN G
    ELSE LET n == Rows(G) - i
         IN SelfLoops([G EXCEPT ![n][n] = 1], i + 1, out)

\* self.graph_weights as __init__ leaves it
InitGraphWeights(Ws, n, out) ==
    SelfLoops(PlaceBlocks(Zeros(n, n), 0, Ws, 1), 0, out)

\* ------------------------------------------------------- the network state
VARIABLES
    input_dim,            \* self.input_dim
    hidden_units,         \* self.hidden_units
    output_dim,           \* self.output_dim
    use_bias,             \* the use_bias argument of __init__
    num_neurons,          \* self._num_neurons
    W,                    \* self.W
    B,                    \* self.B
    graph_weights,        \* self.graph_weights
    X,                    \* the caller's input array (batch x input_dim)
    latent_graph_state,   \* the edge state the caller is propagating, <<>> before loading
    passed_state,         \* the array last passed to graph_step, as the call left it
    steps,                \* calls of graph_step since the input was loaded
    ret                   \* the last call and the value it returned

netVars == <<input_dim, hidden_units, output_dim, use_bias, num_neurons, W, B,
             graph_weights>>
callVars == <<X, latent_graph_state, passed_state, steps, ret>>

\* -------------------------------------------------------------- operations
\* Z += np.transpose([B]) : B added to every column of Z, in place.
AddBias(Z, Bk) ==
    Vec([j \in 1..Rows(Z) |-> Vec([n \in 1..Cols(Z) |-> Z[j][n] + Bk[j]])])

\* One pass of the loop of normal_forward.  Z is a record [arr, view]: the
\* array Z names and whether it is a view of the caller's X (Z = X.T is one,
\* the result of np.dot is a fresh array).  An in-place write through a view
\* lands in X.
NormalLayer(Z, Xc, Wk, Bk) ==
    LET dotted == [arr |-> Dot(Transpose(Wk), Z.arr), view |-> FALSE]
        added  == [arr |-> AddBias(dotted.arr, Bk), view |-> dotted.view]
    IN [Z |-> added, X |-> IF added.view THEN Transpose(added.arr) ELSE Xc]

RECURSIVE NormalLoop(_, _, _, _, _)
NormalLoop(Z, Xc, Ws, Bs, k) ==
    IF k > Len(Ws) THEN [Z |-> Z, X |-> Xc]
    ELSE LET r == NormalLayer(Z, Xc, Ws[k], Bs[k])
         IN NormalLoop(r.Z, r.X, Ws, Bs, k + 1)

\* normal_forward(X): the value returned (Y) and the caller's X after the call.
normal_forward(Ws, Bs, Xc) ==
    LET r == NormalLoop([arr |-> Transpose(Xc), view |-> TRUE], Xc, Ws, Bs, 1)
    IN [Y |-> Transpose(r.Z.arr), X |-> r.X]

RECURSIVE StepLoopNoTranspose(_, _, _, _)
\* The loop with graph_weights in place of graph_weights.T.
StepLoopNoTranspose(next_state, G, S, i) ==
    IF i > Rows(S) THEN next_state
    ELSE StepLoopNoTranspose(AddMat(next_state, MulRow(G, S[i])), G, S, i + 1)

RECURSIVE StepLoop(_, _, _, _)
\* for i in range(shape[0]): next_state += graph_weights.T * latent_graph_state[i]
StepLoop(next_state, G, S, i) ==
    IF i > Rows(S) THEN next_state
    ELSE StepLoop(AddMat(next_state, MulRow(Transpose(G), S[i])), G, S, i + 1)

\* _step accumulating into the array it was passed instead of a fresh one.
stepInPlace(G, S) ==
    LET next_state == StepLoop(Zeros(Rows(S), Cols(S)), G, S, 1)
    IN [next |-> Transpose(next_state), graph_weights |-> G,
        latent_graph_state |-> next_state]

\* _step(graph_weights, latent_graph_state): the value returned (next) and the
\* two argument arrays after the call.  next_state is a fresh array, so the
\* in-place additions reach neither argument.
step(G, S) ==
    LET next_state == StepLoop(Zeros(Rows(S), Cols(S)), G, S, 1)
    IN [next |-> Transpose(next_state), graph_weights |-> G, latent_graph_state |-> S]

\* graph_step(latent_graph_state)
graph_step(G, S) == step(G, S)

\* extract_output reading the diagonal from the last neuron backwards.
extract_output_reversed(S, out) ==
    Vec([c \in 1..out |-> S[Rows(S) + 1 - c][Rows(S) + 1 - c]])

\* extract_output(latent_graph_state): Y[c] = state[-i, -i] for i = out, ..., 1
extract_output(S, out) ==
    Vec([c \in 1..out |->
        LET i == out - (c - 1)
        IN S[Rows(S) + 1 - i][Rows(S) + 1 - i]])

\* The loading with the last row of X in place of the first.
LoadStateLastRow(G, Xc) ==
    LET state == Xc[Len(Xc)]
        D == Len(state)
        padded == Pad(state, Rows(G) - D)
    IN Transpose(MulRow(Transpose(G), padded))

\* The loading with the padded input first multiplied through the weights.
LoadStateDot(G, Xc) ==
    LET state == Xc[1]
        D == Len(state)
        padded == Pad(state, Rows(G) - D)
        moved == Transpose(Dot(Transpose(G), Transpose(<<padded>>)))[1]
    IN Transpose(MulRow(Transpose(G), moved))

\* The first lines of graph_forward: the first row of X, zero-padded to N
\* neurons, loaded onto the outgoing edges of its neurons.
LoadState(G, Xc) ==
    LET state == Xc[1]
        D == Len(state)
        padded == Pad(state, Rows(G) - D)
    IN Transpose(MulRow(Transpose(G), padded))

RECURSIVE StepTimes(_, _, _)
\* for _ in range(k): state = self.graph_step(state)
StepTimes(G, S, k) ==
    IF k = 0 THEN S ELSE StepTimes(G, graph_step(G, S).next, k - 1)

\* The number of propagation steps graph_forward makes.
RequiredSteps(hid) == Len(hid) + 1

\* graph_forward(X): one row, np.expand_dims(extract_output(state), axis=0)
graph_forward(G, hid, out, Xc) ==
    <<extract_output(StepTimes(G, LoadState(G, Xc), RequiredSteps(hid)), out)>>

\* ------------------------------------------------- the genetic search state
VARIABLES
    search_type,          \* the search_type argument of run
    population_size,      \* the population_size argument of run
    generations,          \* the generations argument of run
    rng,                  \* the state of the seeded random generator
    genomes,              \* run's list of genomes
    avg_scores,           \* avg_scores_per_genome of the generation played last
    generation,           \* generations completed
    next_id,              \* identity of the next genome object created
    pc                    \* where run is: "play", "next", "done", "raised", "idle"

evoVars == <<search_type, population_size, generations, rng, genomes, avg_scores,
             generation, next_id, pc>>

\* Generator draws made when one genome is created: its weights and its bias.
GenomeDraws == WeightNumel + 1

\* genome_generator(...): a new network object with freshly drawn parameters.
\* made records how the object came to be ("generated" or "crossover").
genome_generator(r, id) ==
    [id |-> id,
     weight |-> Vec([i \in 1..WeightNumel |-> RandInt(r, i, 3) - 1]),
     bias |-> <<RandInt(r, WeightNumel + 1, 3) - 1>>,
     made |-> "generated"]

\* get_random_genomes(n, ...)
get_random_genomes(n, r, id) ==
    Vec([k \in 1..n |-> genome_generator(RngAt(r, (k - 1) * GenomeDraws), id + k - 1)])

\* Generator draws made by mutate: a mask and a magnitude for every parameter.
MutateDraws == 2 * (WeightNumel + 1)

\* mutate(genome): every parameter the mask selects moves by a random amount.
mutate(genome, r) ==
    [genome EXCEPT
        !.weight = Vec([i \in 1..WeightNumel |->
                      IF RandInt(r, i, 4) = 0
                      THEN genome.weight[i] + RandInt(r, WeightNumel + 1 + i, 3) - 1
                      ELSE genome.weight[i]]),
        !.bias = <<IF RandInt(r, WeightNumel + 1, 4) = 0
                   THEN genome.bias[1] + RandInt(r, 2 * WeightNumel + 2, 3) - 1
                   ELSE genome.bias[1]>>]

\* Generator draws made by one crossover.
CrossoverDraws == 2 + GenomeDraws + MutateDraws

\* crossover(genome1, genome2): a new object; the first w_share weights come
\* from genome1, the others from genome2 (and so for the bias), then mutate.
crossover(genome1, genome2, r, id) ==
    LET w_share == RandInt(r, 1, WeightNumel)
        b_share == RandInt(r, 2, 1)
        cw == Vec([i \in 1..WeightNumel |->
                  IF i <= w_share THEN genome1.weight[i] ELSE genome2.weight[i]])
        cb == <<IF 1 <= b_share THEN genome1.bias[1] ELSE genome2.bias[1]>>
        born == genome_generator(RngAt(r, 2), id)
        child == [born EXCEPT !.weight = cw, !.bias = cb, !.made = "crossover"]
    IN mutate(child, RngAt(r, 2 + GenomeDraws))

\* np.argmax(scores): the first index of the largest score.  Normalising by the
\* norm and the softmax keep the order of the scores.
ArgMax(scores) ==
    CHOOSE b \in 1..Len(scores) :
        /\ \A j \in 1..Len(scores) : scores[b] >= scores[j]
        /\ \A j \in 1..(b - 1) : scores[j] < scores[b]

\* round(0.1 * n)
NRandomRounded(n) == (n + 5) \div 10

\* int(0.1 * n)
NRandom(n) == n \div 10

\* scores / torch.linalg.norm(scores) is NaN in every entry when the norm is 0,
\* and np.random.choice raises ValueError for a p that contains NaN.
NormIsZero(scores) == \A j \in 1..Len(scores) : scores[j] = 0

\* get_next_population(current_genomes, scores, n, search_type, ...): how the
\* call ended, the list returned, and the random state and object count after.
get_next_population(current_genomes, scores, n, stype, r, id) ==
    IF stype = "random"
    THEN [status |-> "returned",
          genomes |-> get_random_genomes(n, r, id),
          rng |-> RngAt(r, n * GenomeDraws),
          next_id |-> id + n]
    ELSE IF stype = "evolutionary"
    THEN IF NormIsZero(scores) \/ Len(scores) # n
         THEN [status |-> "raised", genomes |-> <<>>, rng |-> r, next_id |-> id]
         ELSE
         LET n_random == NRandom(n)
             pairs == n - 1 - n_random
             \* parent_pairs = np.random.choice(indices, (pairs, 2), p=scores)
             parent(k, side) == 1 + RandInt(r, 2 * (k - 1) + side, n)
             r1 == RngAt(r, 2 * pairs)
             best_idx == ArgMax(scores)
             kept == <<current_genomes[best_idx]>>
             children == Vec([k \in 1..pairs |->
                             crossover(current_genomes[parent(k, 1)],
                                       current_genomes[parent(k, 2)],
                                       RngAt(r1, (k - 1) * CrossoverDraws),
                                       id + k - 1)])
             r2 == RngAt(r1, pairs * CrossoverDraws)
             fresh == Vec([k \in 1..n_random |->
                          genome_generator(RngAt(r2, (k - 1) * GenomeDraws),
                                           id + pairs + k - 1)])
             made == kept \o children \o fresh
         IN [status |-> IF Len(made) = Len(current_genomes)
                        THEN "returned" ELSE "assertion",
             genomes |-> made,
             rng |-> RngAt(r2, n_random * GenomeDraws),
             next_id |-> id + pairs + n_random]
    ELSE [status |-> "raised", genomes |-> <<>>, rng |-> r, next_id |-> id]

\* The scores of one generation: every genome plays its episodes in an
\* environment seeded from the generator (one draw per genome).
PlayScores(gs, r) == Vec([k \in 1..Len(gs) |-> RandInt(r, k, MaxScore + 1)])

\* ----------------------------------------------------------- initial state
\* (input_dim, hidden_units..., output_dim): every sequence of two or more
\* positive layer sizes with at most MaxNeurons neurons in all.
LayerSizeChoices ==
    {sz \in UNION {[1..len -> 1..(MaxNeurons - 1)] : len \in 2..MaxNeurons} :
        Sum(sz) <= MaxNeurons}

\* Number of generator draws made by the whole of __init__.
DrawsOfInit(sizes, bias) == DrawsBefore(sizes, bias, Len(sizes))

\* X = np.random.randint(high, size=(batch, input_features)), drawn after the
\* network is built.
InitX(sizes, bias, seed, batch) ==
    Vec([r \in 1..batch |-> Vec([c \in 1..sizes[1] |->
        RandInt(seed, DrawsOfInit(sizes, bias) + (r - 1) * sizes[1] + c, InputHigh)])])

NoCall == [op |-> "none", val |-> <<>>]

\* The state after GraphFFNN(input_dim, hidden_units, output_dim, use_bias)
\* returned and the caller made its input.
NetInit ==
    \E sizes \in LayerSizeChoices, bias \in BOOLEAN, seed \in 0..MaxSeed,
       batch \in 1..MaxBatch :
        /\ input_dim = sizes[1]
        /\ hidden_units = SubSeq(sizes, 2, Len(sizes) - 1)
        /\ output_dim = sizes[Len(sizes)]
        /\ use_bias = bias
        /\ num_neurons = Sum(sizes)
        /\ W = InitW(sizes, bias, RngSeed(seed))
        /\ B = InitB(sizes, bias, RngSeed(seed))
        /\ graph_weights = InitGraphWeights(InitW(sizes, bias, RngSeed(seed)), Sum(sizes),
                                            sizes[Len(sizes)])
        /\ X = InitX(sizes, bias, RngSeed(seed), batch)
        /\ latent_graph_state = <<>>
        /\ passed_state = <<>>
        /\ steps = 0
        /\ ret = NoCall

\* The search_type values tried: the two run knows and one it does not.
SearchTypes == {"random", "evolutionary", "exhaustive"}

\* The state of run(...) when its first, random generation is made.
EvoInit ==
    \E seed \in 0..MaxSeed, n \in 1..MaxPopulation, st \in SearchTypes,
       gens \in 1..MaxGenerations :
        /\ search_type = st
        /\ population_size = n
        /\ generations = gens
        /\ genomes = get_random_genomes(n, RngSeed(seed), 1)
        /\ rng = RngAt(RngSeed(seed), n * GenomeDraws)
        /\ next_id = n + 1
        /\ avg_scores = <<>>
        /\ generation = 0
        /\ pc = "play"

\* No network is under test while the genetic search is checked, and no
\* search runs while the network is.
NetIdle ==
    /\ input_dim = 0 /\ hidden_units = <<>> /\ output_dim = 0 /\ use_bias = FALSE
    /\ num_neurons = 0 /\ W = <<>> /\ B = <<>> /\ graph_weights = <<>>
    /\ X = <<>> /\ latent_graph_state = <<>> /\ passed_state = <<>>
    /\ steps = 0 /\ ret = NoCall

EvoIdle ==
    /\ search_type = "random" /\ population_size = 0 /\ generations = 0
    /\ rng = 0 /\ genomes = <<>> /\ avg_scores = <<>> /\ generation = 0
    /\ next_id = 1 /\ pc = "idle"

Init == NetInit /\ EvoIdle

InitEvo == NetIdle /\ EvoInit

\* ----------------------------------------------------------------- actions
Loaded == latent_graph_state # <<>>

\* The caller loads its input as graph_forward does (the lines before the loop).
Load ==
    /\ latent_graph_state' = LoadState(graph_weights, X)
    /\ passed_state' = <<>>
    /\ steps' = 0
    /\ ret' = [op |-> "load", val |-> <<>>]
    /\ UNCHANGED <<netVars, X, evoVars>>

\* state = gnn.graph_step(state)
GraphStep ==
    /\ Loaded
    /\ steps < RequiredSteps(hidden_units) + MaxExtra
    /\ LET r == graph_step(graph_weights, latent_graph_state)
       IN /\ latent_graph_state' = r.next
          /\ passed_state' = r.latent_graph_state
          /\ graph_weights' = r.graph_weights
          /\ ret' = [op |-> "graph_step", val |-> <<>>]
    /\ steps' = steps + 1
    /\ UNCHANGED <<input_dim, hidden_units, output_dim, use_bias, num_neurons, W, B, X,
                   evoVars>>

\* gnn.extract_output(state)
ExtractOutput ==
    /\ Loaded
    /\ ret' = [op |-> "extract_output", val |-> extract_output(latent_graph_state, output_dim)]
    /\ UNCHANGED <<netVars, X, latent_graph_state, passed_state, steps, evoVars>>

\* gnn.normal_forward(X)
NormalForward ==
    /\ LET r == normal_forward(W, B, X)
       IN /\ ret' = [op |-> "normal_forward", val |-> r.Y]
          /\ X' = r.X
    /\ UNCHANGED <<netVars, latent_graph_state, passed_state, steps, evoVars>>

\* gnn.graph_forward(X)
GraphForward ==
    /\ ret' = [op |-> "graph_forward",
               val |-> graph_forward(graph_weights, hidden_units, output_dim, X)]
    /\ UNCHANGED <<netVars, X, latent_graph_state, passed_state, steps, evoVars>>

Next ==
    \/ Load
    \/ GraphStep
    \/ ExtractOutput
    \/ NormalForward
    \/ GraphForward

\* One generation of run plays: the loop over the genomes.
Play ==
    /\ pc = "play"
    /\ avg_scores' = PlayScores(genomes, rng)
    /\ rng' = RngAt(rng, Len(genomes))
    /\ pc' = "next"
    /\ UNCHANGED <<search_type, population_size, generations, genomes, generation,
                   next_id, netVars, callVars>>

\* genomes = get_next_population(genomes, scores, population_size, search_type, ...)
NextPopulation ==
    /\ pc = "next"
    /\ LET r == get_next_population(genomes, avg_scores, population_size, search_type,
                                    rng, next_id)
       IN IF r.status = "returned"
          THEN /\ genomes' = r.genomes
               /\ rng' = r.rng
               /\ next_id' = r.next_id
               /\ generation' = generation + 1
               /\ pc' = IF generation + 1 < generations THEN "play" ELSE "done"
          ELSE /\ pc' = r.status
               /\ UNCHANGED <<genomes, rng, next_id, generation>>
    /\ UNCHANGED <<search_type, population_size, generations, avg_scores, netVars,
                   callVars>>

NextEvo ==
    \/ Play
    \/ NextPopulation

vars == <<netVars, callVars, evoVars>>

Spec == Init /\ [][Next]_vars

SpecEvo == InitEvo /\ [][NextEvo]_vars

\* =================================================================== claims
\* Helpers of the statements below.
ZeroVec(n) == [c \in 1..n |-> 0]

\* The reference output for the first row of X.
NormalRow == normal_forward(W, B, X).Y[1]

\* The layered product of the first row of X with the weights alone.
BiasFreeRow == normal_forward(W, [k \in 1..Len(B) |-> ZeroVec(Len(B[k]))], <<X[1]>>).Y[1]

\* What the reference pass adds to the layered product: its output on a zero input.
BiasTerm == normal_forward(W, B, <<ZeroVec(input_dim)>>).Y[1]

\* Offset of layer k in the neuron space: the sizes of all earlier layers.
Offset(k) == SumTo(LayerSizes(input_dim, hidden_units, output_dim), k - 1)

\* The spec's latent activation vector after k propagation steps:
\* next[j] = sum over i of latent[i] * graph_weights[i][j].
RECURSIVE Act(_)
Act(k) ==
    IF k = 0 THEN X[1] \o ZeroVec(num_neurons - input_dim)
    ELSE LET prev == Act(k - 1)
         IN Vec([j \in 1..num_neurons |->
                SumTo([i \in 1..num_neurons |-> prev[i] * graph_weights[i][j]],
                      num_neurons)])

\* C1: without bias, graph_forward of a single-row X returns exactly what
\* normal_forward returns, output units in the same order; so does extracting
\* after len(hidden_units)+1 calls of graph_step.
C1_GraphEqualsNormal ==
    (~use_bias /\ Len(X) = 1) =>
        /\ ret.op = "graph_forward" => ret.val = normal_forward(W, B, X).Y
        /\ (ret.op = "extract_output" /\ steps = RequiredSteps(hidden_units))
               => ret.val = NormalRow

C1_Witness ==
    /\ ~use_bias /\ Len(X) = 1
    /\ ret.op = "graph_forward"
    /\ Len(hidden_units) >= 2
    /\ output_dim >= 2
    /\ ret.val[1][1] # ret.val[1][2]

\* C2: any number of calls of graph_step beyond the required ones leaves the
\* extracted vector what it was after exactly the required ones.
C2_ExtraStepsHarmless ==
    (ret.op = "extract_output" /\ steps > RequiredSteps(hidden_units)) =>
        ret.val = extract_output(StepTimes(graph_weights, LoadState(graph_weights, X),
                                           RequiredSteps(hidden_units)), output_dim)

C2_Witness ==
    /\ ret.op = "extract_output"
    /\ steps = RequiredSteps(hidden_units) + MaxExtra
    /\ ret.val # ZeroVec(output_dim)
    /\ Len(hidden_units) >= 1

\* C3: extracting before the required number of steps returns the zero vector
\* of length output_dim.
C3_EarlyExtractionZero ==
    (ret.op = "extract_output" /\ steps < RequiredSteps(hidden_units)) =>
        ret.val = ZeroVec(output_dim)

C3_Witness ==
    /\ ret.op = "extract_output"
    /\ steps >= 1 /\ steps < RequiredSteps(hidden_units)
    /\ NormalRow # ZeroVec(output_dim)
    /\ \E i \in 1..num_neurons : Act(steps)[i] # 0

\* C4 as claimed: after one step fewer than required the extracted vector is
\* never the reference output.
C4_OneFewerDiffers ==
    (ret.op = "extract_output" /\ steps = RequiredSteps(hidden_units) - 1) =>
        ret.val # NormalRow

\* C4 amended: after one step fewer than required the extracted vector is zero,
\* so it differs from the reference output exactly when that is not zero.
C4_OneFewerDiffersUnlessZero ==
    (ret.op = "extract_output" /\ steps = RequiredSteps(hidden_units) - 1) =>
        /\ ret.val = ZeroVec(output_dim)
        /\ (ret.val # NormalRow) <=> (NormalRow # ZeroVec(output_dim))

C4_Witness ==
    /\ ret.op = "extract_output"
    /\ steps = RequiredSteps(hidden_units) - 1
    /\ steps >= 1
    /\ ret.val # NormalRow

\* The layer transition, if any, whose block of graph_weights holds entry (r, c).
BlocksAt(r, c) ==
    {k \in 1..Len(W) :
        /\ r > Offset(k) /\ r <= Offset(k) + Rows(W[k])
        /\ c > Offset(k) + Rows(W[k]) /\ c <= Offset(k) + Rows(W[k]) + Cols(W[k])}

\* C5: graph_weights is N x N with N the sum of the layer sizes; the block of
\* layer transition k, at rows o_k+1..o_k+prev and columns
\* o_k+prev+1..o_k+prev+units, equals W[k]; the last output_dim diagonal
\* entries are 1; every other entry is 0; blocks stay in bounds, are disjoint
\* and hold no self-loop entry.
C5_BlockPlacement ==
    W # <<>> =>
        /\ num_neurons = input_dim + Sum(hidden_units) + output_dim
        /\ Rows(graph_weights) = num_neurons
        /\ \A r \in 1..num_neurons : Len(graph_weights[r]) = num_neurons
        /\ \A k \in 1..Len(W) :
               /\ Offset(k) + Rows(W[k]) + Cols(W[k]) <= num_neurons
               /\ \A i \in 1..Rows(W[k]), j \in 1..Cols(W[k]) :
                      graph_weights[Offset(k) + i][Offset(k) + Rows(W[k]) + j] = W[k][i][j]
        /\ \A r \in 1..num_neurons, c \in 1..num_neurons :
               /\ Cardinality(BlocksAt(r, c)) <= 1
               /\ (r = c /\ r > num_neurons - output_dim) =>
                      (graph_weights[r][c] = 1 /\ BlocksAt(r, c) = {})
               /\ (BlocksAt(r, c) = {} /\ ~(r = c /\ r > num_neurons - output_dim)) =>
                      graph_weights[r][c] = 0

C5_Witness ==
    /\ Len(hidden_units) >= 2
    /\ hidden_units[1] # hidden_units[2]
    /\ \E i \in 1..Rows(W[3]), j \in 1..Cols(W[3]) : W[3][i][j] # 0
    /\ \E i \in 1..Rows(W[1]), j \in 1..Cols(W[1]) : W[1][i][j] # 0

\* The edge state that stands for the activation vector act.
EdgeState(act) ==
    [b \in 1..num_neurons |-> [a \in 1..num_neurons |-> act[b] * graph_weights[b][a]]]

\* C6: the N x N edge state of the code refines the spec's activation vector:
\* after loading and k calls of graph_step, entry [b][a] of the state is
\* act_k[b] * graph_weights[b][a], where act_0 is the zero-padded input and
\* act_(k+1)[j] = sum over i of act_k[i] * graph_weights[i][j].
C6_StepRefinesVector ==
    Loaded => latent_graph_state = EdgeState(Act(steps))

C6_Witness ==
    /\ Loaded
    /\ steps >= 2
    /\ \E b \in 1..num_neurons, a \in 1..num_neurons :
           b # a /\ latent_graph_state[b][a] # 0

\* C7 as claimed: graph_forward returns the bias-free layered product, and
\* differs from normal_forward whenever use_bias is true.
C7_BiasAlwaysDisagrees ==
    ret.op = "graph_forward" =>
        /\ ret.val[1] = BiasFreeRow
        /\ use_bias => ret.val[1] # NormalRow

\* C7 amended: graph_forward returns the bias-free layered product whatever B
\* is, and differs from normal_forward exactly when the bias term of the
\* reference output is not zero.
C7_BiasIgnored ==
    ret.op = "graph_forward" =>
        /\ ret.val[1] = BiasFreeRow
        /\ (ret.val[1] # NormalRow) <=> (BiasTerm # ZeroVec(output_dim))

C7_Witness ==
    /\ ret.op = "graph_forward"
    /\ use_bias
    /\ Len(hidden_units) >= 1
    /\ BiasTerm # ZeroVec(output_dim)
    /\ ret.val[1] # NormalRow
    /\ ret.val[1] # ZeroVec(output_dim)

\* C8: graph_forward reads the first row of X only: it returns one row of
\* length output_dim, the same as for the one-row input <<X[1]>>, and without
\* bias that row is the first row of normal_forward(X).
C8_FirstRowOnly ==
    ret.op = "graph_forward" =>
        /\ Len(ret.val) = 1
        /\ Len(ret.val[1]) = output_dim
        /\ ret.val = graph_forward(graph_weights, hidden_units, output_dim, <<X[1]>>)
        /\ ~use_bias => ret.val[1] = NormalRow

C8_Witness ==
    /\ ret.op = "graph_forward"
    /\ Len(X) >= 2
    /\ X[2] # X[1]
    /\ ~use_bias
    /\ normal_forward(W, B, X).Y[2] # normal_forward(W, B, X).Y[1]

\* C9: no call changes graph_weights, W, B or the caller's X, and graph_step
\* leaves the state passed to it as it was.
C9_ReadOnly ==
    [][/\ graph_weights' = graph_weights
       /\ W' = W
       /\ B' = B
       /\ X' = X
       /\ (steps' = steps + 1) => (passed_state' = latent_graph_state)]_vars

C9_Witness ==
    /\ ret.op = "normal_forward"
    /\ use_bias
    /\ steps >= 2
    /\ passed_state # latent_graph_state
    /\ \E b \in 1..num_neurons, a \in 1..num_neurons : passed_state[b][a] # 0

\* C10: with search_type "evolutionary" get_next_population returns as many
\* genomes as it was given (its assertion never fails): first a current genome
\* of the highest score, unchanged, then n-1-int(0.1*n) crossover children, then
\* int(0.1*n) newly generated genomes; the population of run keeps its size;
\* a search_type other than "random" and "evolutionary" raises and returns nothing.
C10_PopulationStep ==
    [][/\ pc' # "assertion"
       /\ (pc \in {"play", "next", "done"}) => (Len(genomes) = population_size)
       /\ (pc = "next" /\ search_type \notin {"random", "evolutionary"}) =>
              (pc' = "raised" /\ genomes' = genomes /\ generation' = generation)
       /\ (pc = "next" /\ search_type = "evolutionary" /\ pc' \in {"play", "done"}) =>
              LET n == Len(genomes)
                  k10 == n \div 10
              IN /\ Len(genomes') = n
                 /\ \E b \in 1..n :
                        /\ genomes'[1] = genomes[b]
                        /\ \A j \in 1..n : avg_scores[b] >= avg_scores[j]
                 /\ \A k \in 2..(n - k10) :
                        genomes'[k].made = "crossover" /\ genomes'[k].id >= next_id
                 /\ \A k \in (n - k10 + 1)..n :
                        genomes'[k].made = "generated" /\ genomes'[k].id >= next_id]_vars

C10_Witness ==
    /\ pc = "done"
    /\ search_type = "evolutionary"
    /\ generation >= 2
    /\ population_size >= 20
    /\ genomes[population_size].made = "generated"
    /\ genomes[2].made = "crossover"

====
